---- MODULE Spec2Model ----
(***************************************************************************)
(* Model of the present-proof v2.0 presentation request message            *)
(* (aries_cloudagent/protocols/present_proof/v2_0/messages/pres_request.py)*)
(*   - V20PresRequestSchema.validate_fields : cardinality check, then per  *)
(*     descriptor attachment lookup and per-format validation;             *)
(*   - V20PresRequest.attachment            : content resolution;          *)
(*   - V20PresRequest.add_signature         : base64 signature storage.    *)
(* Python None of an optional value is the empty sequence, a present value *)
(* x is <<x>>; None of a format (an enum member) is the string "None".     *)
(***************************************************************************)
EXTENDS Integers, Sequences, FiniteSets, TLC

VARIABLES data, pc, i, atch, trace, outcome, prev, msg, lastCall, ncalls

vars == <<data, pc, i, atch, trace, outcome, prev, msg, lastCall, ncalls>>

valVars == <<data, pc, i, atch, trace, outcome, prev>>

msgVars == <<msg, lastCall, ncalls>>

(***************************************************************************)
(* Bounds                                                                  *)
(***************************************************************************)
MaxLen == 2

MaxSigLen == 3

MaxCalls == 2

(***************************************************************************)
(* Value universes                                                         *)
(***************************************************************************)
AttachIds == {"a1", "a2"}

FormatLabels == {"known/1.0", "known/2.0", "unknown/1.0"}

Contents == {{}, {"name"}, {"name", "version"}}

Descriptors == [attach_id : AttachIds, format : FormatLabels]

Attachments == [ident : AttachIds, content : Contents]

SeqsUpTo(S, n) == UNION {[1..k -> S] : k \in 0..n}

Tasks == {"t1", "t2"}

None == "None"

NoneVal == <<>>

Some(x) == <<x>>

PRES_20_REQUEST == "present-proof/2.0/request-presentation"

(***************************************************************************)
(* Format registry (V20PresFormat.Format) and its validators               *)
(***************************************************************************)
Formats == {"KNOWN_1", "KNOWN_2"}

FormatGet(label) ==
    CASE label = "known/1.0" -> "KNOWN_1"
      [] label = "known/2.0" -> "KNOWN_2"
      [] OTHER -> None

RequiredKeys(pres_format, stage) ==
    IF stage # PRES_20_REQUEST THEN {}
    ELSE IF pres_format = "KNOWN_1" THEN {"name"}
    ELSE {"name", "version"}

FormatAccepts(pres_format, stage, content) ==
    RequiredKeys(pres_format, stage) \subseteq content

(***************************************************************************)
(* validate_fields: helpers                                                *)
(***************************************************************************)
DataGetOrEmpty(d, key) == IF key \in DOMAIN d THEN d[key] ELSE <<>>

FormatsOf(d) == DataGetOrEmpty(d, "formats")

AttachmentsOf(d) == DataGetOrEmpty(d, "request_presentations_attach")

(* Variant of the length check that misses surplus descriptors. *)
LengthMismatchLess(formats, attachments) == Len(formats) < Len(attachments)

LengthMismatch(formats, attachments) == Len(formats) # Len(attachments)

NoAtch == [ident |-> None, content |-> {}]

RECURSIVE ScanFrom(_, _, _)
ScanFrom(attachments, attach_id, j) ==
    IF j > Len(attachments) THEN NoAtch
    ELSE IF attachments[j].ident = attach_id THEN attachments[j]
    ELSE ScanFrom(attachments, attach_id, j + 1)

(* Variants of get_attach_by_id: last occurrence wins; a default instead of the error. *)
RECURSIVE ScanBack(_, _, _)
ScanBack(attachments, attach_id, j) ==
    IF j < 1 THEN NoAtch
    ELSE IF attachments[j].ident = attach_id THEN attachments[j]
    ELSE ScanBack(attachments, attach_id, j - 1)

get_attach_by_id_last(attachments, attach_id) ==
    ScanBack(attachments, attach_id, Len(attachments))

get_attach_by_id_default(attachments, attach_id) ==
    IF ScanFrom(attachments, attach_id, 1) = NoAtch /\ Len(attachments) > 0
    THEN attachments[1]
    ELSE ScanFrom(attachments, attach_id, 1)

get_attach_by_id(attachments, attach_id) == ScanFrom(attachments, attach_id, 1)

Pending == [kind |-> "pending", id |-> ""]

Accepted == [kind |-> "ok", id |-> ""]

LengthError == [kind |-> "Formats/attachments length mismatch", id |-> ""]

(* Variant of the error that leaves the identifier out. *)
NoAttachmentErrorUnnamed(attach_id) ==
    [kind |-> "No attachment for attach_id", id |-> ""]

NoAttachmentError(attach_id) ==
    [kind |-> "No attachment for attach_id", id |-> attach_id]

FormatError(label) == [kind |-> "format validation failure", id |-> label]

LookupEvent(idx, attach_id) ==
    [op |-> "lookup", idx |-> idx, arg |-> attach_id, stage |-> "", content |-> {}]

ValidateEvent(idx, pres_format, stage, content) ==
    [op |-> "validate", idx |-> idx, arg |-> pres_format, stage |-> stage,
     content |-> content]

(* Control flow of the loop of validate_fields: the position after the     *)
(* lookup of descriptor idx, and after the format step of descriptor idx,  *)
(* of n descriptors.                                                       *)
(* Variant control flow: all lookups first, format validation afterwards. *)
AfterLookupTwoPass(idx, n) ==
    IF idx < n THEN [pc |-> "lookup", i |-> idx + 1]
    ELSE [pc |-> "dispatch", i |-> 1]

AfterLookup(idx, n) == [pc |-> "dispatch", i |-> idx]

AfterDispatch(idx, n) ==
    IF idx < n THEN [pc |-> "lookup", i |-> idx + 1]
    ELSE [pc |-> "done", i |-> idx + 1]

(* Variant in which atch is shared between calls instead of local to one. *)
OtherTask(t) == CHOOSE u \in Tasks : u # t

CurrentAtchShared(t) ==
    IF pc[OtherTask(t)] = "dispatch" THEN atch[OtherTask(t)] ELSE atch[t]

CurrentAtch(t) == atch[t]

(* Variant that validates whether or not the format is registered. *)
ValidatesAlways(pres_format) == TRUE

Validates(pres_format) == pres_format # None

(***************************************************************************)
(* validate_fields: steps of one call, task t                              *)
(***************************************************************************)
CheckLength(t) ==
    /\ pc[t] = "start"
    /\ LET formats == FormatsOf(data[t])
           attachments == AttachmentsOf(data[t])
       IN IF LengthMismatch(formats, attachments)
          THEN /\ outcome' = [outcome EXCEPT ![t] = LengthError]
               /\ pc' = [pc EXCEPT ![t] = "done"]
               /\ i' = i
          ELSE IF Len(formats) = 0
          THEN /\ outcome' = [outcome EXCEPT ![t] = Accepted]
               /\ pc' = [pc EXCEPT ![t] = "done"]
               /\ i' = i
          ELSE /\ outcome' = outcome
               /\ pc' = [pc EXCEPT ![t] = "lookup"]
               /\ i' = [i EXCEPT ![t] = 1]
    /\ UNCHANGED <<data, atch, trace, prev, msgVars>>

Lookup(t) ==
    /\ pc[t] = "lookup"
    /\ LET formats == FormatsOf(data[t])
           attachments == AttachmentsOf(data[t])
           fmt == formats[i[t]]
           found == get_attach_by_id(attachments, fmt.attach_id)
           next == AfterLookup(i[t], Len(formats))
       IN /\ trace' = [trace EXCEPT ![t] = Append(@, LookupEvent(i[t], fmt.attach_id))]
          /\ IF found = NoAtch
             THEN /\ outcome' = [outcome EXCEPT ![t] = NoAttachmentError(fmt.attach_id)]
                  /\ pc' = [pc EXCEPT ![t] = "done"]
                  /\ UNCHANGED <<i, atch>>
             ELSE /\ atch' = [atch EXCEPT ![t] = found]
                  /\ pc' = [pc EXCEPT ![t] = next.pc]
                  /\ i' = [i EXCEPT ![t] = next.i]
                  /\ outcome' = outcome
    /\ UNCHANGED <<data, prev, msgVars>>

Dispatch(t) ==
    /\ pc[t] = "dispatch"
    /\ LET formats == FormatsOf(data[t])
           fmt == formats[i[t]]
           pres_format == FormatGet(fmt.format)
           content == CurrentAtch(t).content
           next == AfterDispatch(i[t], Len(formats))
       IN IF Validates(pres_format)
          THEN /\ trace' = [trace EXCEPT ![t] =
                              Append(@, ValidateEvent(i[t], pres_format,
                                                      PRES_20_REQUEST, content))]
               /\ IF FormatAccepts(pres_format, PRES_20_REQUEST, content)
                  THEN /\ pc' = [pc EXCEPT ![t] = next.pc]
                       /\ i' = [i EXCEPT ![t] = next.i]
                       /\ outcome' = [outcome EXCEPT ![t] =
                                        IF next.pc = "done" THEN Accepted ELSE @]
                  ELSE /\ pc' = [pc EXCEPT ![t] = "done"]
                       /\ i' = i
                       /\ outcome' = [outcome EXCEPT ![t] = FormatError(fmt.format)]
          ELSE /\ trace' = trace
               /\ pc' = [pc EXCEPT ![t] = next.pc]
               /\ i' = [i EXCEPT ![t] = next.i]
               /\ outcome' = [outcome EXCEPT ![t] =
                                IF next.pc = "done" THEN Accepted ELSE @]
    /\ UNCHANGED <<data, atch, prev, msgVars>>

(* The same data is handed to validate_fields again.                       *)
Revalidate(t) ==
    /\ pc[t] = "done"
    /\ prev' = [prev EXCEPT ![t] = outcome[t]]
    /\ outcome' = [outcome EXCEPT ![t] = Pending]
    /\ trace' = [trace EXCEPT ![t] = <<>>]
    /\ pc' = [pc EXCEPT ![t] = "start"]
    /\ i' = [i EXCEPT ![t] = 0]
    /\ atch' = [atch EXCEPT ![t] = NoAtch]
    /\ UNCHANGED <<data, msgVars>>

(***************************************************************************)
(* Inputs of validation: the deserialized data of one envelope             *)
(***************************************************************************)
DataKeys == {"formats", "request_presentations_attach"}

DataOver(descs, atts) ==
    {[formats |-> f, request_presentations_attach |-> a] :
        f \in SeqsUpTo(descs, MaxLen), a \in SeqsUpTo(atts, MaxLen)}
    \cup {[formats |-> f] : f \in SeqsUpTo(descs, MaxLen)}
    \cup {[request_presentations_attach |-> a] : a \in SeqsUpTo(atts, MaxLen)}
    \cup {<<>>}

EmptyData == [k \in DataKeys |-> <<>>]

EmptyMsg ==
    [_id |-> "id1", comment |-> NoneVal, verifier_did |-> NoneVal,
     will_confirm |-> FALSE, formats |-> <<>>, signature |-> NoneVal,
     request_presentations_attach |-> <<>>]

NoCall == [op |-> "none", fmt |-> None, sign |-> <<>>, result |-> NoneVal]

InitMsgIdle ==
    /\ msg = EmptyMsg
    /\ lastCall = NoCall
    /\ ncalls = 0

InitTasks ==
    /\ pc = [t \in Tasks |-> "start"]
    /\ i = [t \in Tasks |-> 0]
    /\ atch = [t \in Tasks |-> NoAtch]
    /\ trace = [t \in Tasks |-> <<>>]
    /\ outcome = [t \in Tasks |-> Pending]
    /\ prev = [t \in Tasks |-> Pending]

(***************************************************************************)
(* Spec: one call of validate_fields on an arbitrary envelope              *)
(***************************************************************************)
Init ==
    /\ \E d \in DataOver(Descriptors, Attachments) :
          data = [t \in Tasks |-> IF t = "t1" THEN d ELSE EmptyData]
    /\ InitTasks
    /\ InitMsgIdle

Next ==
    \/ CheckLength("t1")
    \/ Lookup("t1")
    \/ Dispatch("t1")

Spec == Init /\ [][Next]_vars

(***************************************************************************)
(* SpecIdem: validate_fields called repeatedly, two calls interleaved      *)
(***************************************************************************)
OtherEnvelopes ==
    {[formats |-> <<[attach_id |-> "a1", format |-> "known/1.0"]>>,
      request_presentations_attach |-> <<[ident |-> "a1", content |-> {}]>>],
     [formats |-> <<[attach_id |-> "a1", format |-> "known/2.0"],
                    [attach_id |-> "a2", format |-> "unknown/1.0"]>>,
      request_presentations_attach |->
          <<[ident |-> "a2", content |-> {"name"}],
            [ident |-> "a1", content |-> {"name", "version"}]>>]}

IdemDescriptors == [attach_id : AttachIds, format : {"known/1.0", "unknown/1.0"}]

IdemAttachments == [ident : AttachIds, content : {{}, {"name"}}]

InitIdem ==
    /\ \E d \in DataOver(IdemDescriptors, IdemAttachments) : \E e \in OtherEnvelopes :
          data = [t \in Tasks |-> IF t = "t1" THEN d ELSE e]
    /\ InitTasks
    /\ InitMsgIdle

NextIdem ==
    \E t \in Tasks :
        \/ CheckLength(t)
        \/ Lookup(t)
        \/ Dispatch(t)
        \/ Revalidate(t)

SpecIdem == InitIdem /\ [][NextIdem]_vars

(***************************************************************************)
(* V20PresRequest: the message object                                      *)
(***************************************************************************)
OrEmptyList(x) == IF x = NoneVal THEN <<>> ELSE x[1]

(* __init__ *)
V20PresRequest(id, comment, verifier_did, will_confirm, formats, signature, attach) ==
    [_id |-> id, comment |-> comment, verifier_did |-> verifier_did,
     will_confirm |-> (will_confirm = Some(TRUE)),
     formats |-> OrEmptyList(formats), signature |-> signature,
     request_presentations_attach |-> OrEmptyList(attach)]

(* next(filter(lambda ff: ff, [Format.get(f.format) for f in formats]), None) *)
RECURSIVE FirstTruthy(_, _)
FirstTruthy(formats, j) ==
    IF j > Len(formats) THEN None
    ELSE IF FormatGet(formats[j].format) # None
         THEN FormatGet(formats[j].format)
    ELSE FirstTruthy(formats, j + 1)

(* Variant default format: the last registered format declared. *)
RECURSIVE LastTruthy(_, _)
LastTruthy(formats, j) ==
    IF j < 1 THEN None
    ELSE IF FormatGet(formats[j].format) # None
         THEN FormatGet(formats[j].format)
    ELSE LastTruthy(formats, j - 1)

DefaultFormatLast(formats) == LastTruthy(formats, Len(formats))

DefaultFormat(formats) == FirstTruthy(formats, 1)

(* Variant that ignores the requested format. *)
TargetFormatDefaultOnly(fmt, formats) == DefaultFormat(formats)

TargetFormat(fmt, formats) == IF fmt # None THEN fmt ELSE DefaultFormat(formats)

(* V20PresFormat.Format.get_attachment_data *)
RECURSIVE FirstOfFormat(_, _, _)
FirstOfFormat(pres_format, formats, j) ==
    IF j > Len(formats) THEN 0
    ELSE IF FormatGet(formats[j].format) = pres_format THEN j
    ELSE FirstOfFormat(pres_format, formats, j + 1)

get_attachment_data(pres_format, formats, attachments) ==
    LET d == FirstOfFormat(pres_format, formats, 1)
    IN IF d = 0 THEN NoneVal
       ELSE LET a == ScanFrom(attachments, formats[d].attach_id, 1)
            IN IF a = NoAtch THEN NoneVal ELSE Some(a.content)

attachment(m, fmt) ==
    LET target_format == TargetFormat(fmt, m.formats)
    IN IF target_format # None
       THEN get_attachment_data(target_format, m.formats,
                                m.request_presentations_attach)
       ELSE NoneVal

Attachment(fmt) ==
    /\ lastCall' = [op |-> "attachment", fmt |-> fmt, sign |-> <<>>,
                    result |-> attachment(msg, fmt)]
    /\ UNCHANGED <<msg, ncalls, valVars>>

InitValIdle ==
    /\ data = [t \in Tasks |-> EmptyData]
    /\ InitTasks

InitResolve ==
    /\ \E f \in {NoneVal} \cup {Some(x) : x \in SeqsUpTo(Descriptors, MaxLen)} :
       \E a \in {NoneVal} \cup {Some(x) : x \in SeqsUpTo(Attachments, MaxLen)} :
          msg = V20PresRequest("id1", NoneVal, NoneVal, NoneVal, f, NoneVal, a)
    /\ lastCall = NoCall
    /\ ncalls = 0
    /\ InitValIdle

NextResolve == \E fmt \in Formats \cup {None} : Attachment(fmt)

SpecResolve == InitResolve /\ [][NextResolve]_vars

(***************************************************************************)
(* add_signature: base64.b64encode(sign).decode("utf-8")                   *)
(***************************************************************************)
Base64Chars ==
    <<"A", "B", "C", "D", "E", "F", "G", "H", "I", "J", "K", "L", "M",
      "N", "O", "P", "Q", "R", "S", "T", "U", "V", "W", "X", "Y", "Z",
      "a", "b", "c", "d", "e", "f", "g", "h", "i", "j", "k", "l", "m",
      "n", "o", "p", "q", "r", "s", "t", "u", "v", "w", "x", "y", "z",
      "0", "1", "2", "3", "4", "5", "6", "7", "8", "9", "+", "/">>

(* ASCII code of the base64 digit of a sextet 0..63 *)
Base64Code(sextet) ==
    IF sextet < 26 THEN 65 + sextet
    ELSE IF sextet < 52 THEN 97 + (sextet - 26)
    ELSE IF sextet < 62 THEN 48 + (sextet - 52)
    ELSE IF sextet = 62 THEN 43
    ELSE 47

PadCode == 61

(* base64.b64encode: bytes -> bytes (ASCII codes) *)
RECURSIVE b64encode(_)
b64encode(bytes) ==
    IF Len(bytes) = 0 THEN <<>>
    ELSE IF Len(bytes) = 1
    THEN <<Base64Code(bytes[1] \div 4), Base64Code((bytes[1] % 4) * 16),
           PadCode, PadCode>>
    ELSE IF Len(bytes) = 2
    THEN <<Base64Code(bytes[1] \div 4),
           Base64Code((bytes[1] % 4) * 16 + bytes[2] \div 16),
           Base64Code((bytes[2] % 16) * 4), PadCode>>
    ELSE <<Base64Code(bytes[1] \div 4),
           Base64Code((bytes[1] % 4) * 16 + bytes[2] \div 16),
           Base64Code((bytes[2] % 16) * 4 + bytes[3] \div 64),
           Base64Code(bytes[3] % 64)>>
         \o b64encode(SubSeq(bytes, 4, Len(bytes)))

(* bytes.decode("utf-8") of ASCII bytes: one character per byte *)
AsciiChr(code) ==
    IF code = PadCode THEN "="
    ELSE Base64Chars[1 + (CHOOSE s \in 0..63 : Base64Code(s) = code)]

Utf8Decode(bytes) == [k \in 1..Len(bytes) |-> AsciiChr(bytes[k])]

(* Variant that appends to a signature already present. *)
add_signature_append(m, sign) ==
    [m EXCEPT !.signature =
        Some(OrEmptyList(m.signature) \o Utf8Decode(b64encode(sign)))]

add_signature(m, sign) ==
    [m EXCEPT !.signature = Some(Utf8Decode(b64encode(sign)))]

ByteVals == {0, 251, 255}

AddSignature(sign) ==
    /\ ncalls < MaxCalls
    /\ ncalls' = ncalls + 1
    /\ msg' = add_signature(msg, sign)
    /\ lastCall' = [op |-> "add_signature", fmt |-> None, sign |-> sign,
                    result |-> NoneVal]
    /\ UNCHANGED valVars

SignFormats ==
    {NoneVal,
     Some(<<[attach_id |-> "a1", format |-> "known/1.0"]>>)}

SignAttachments ==
    {NoneVal,
     Some(<<[ident |-> "a1", content |-> {"name"}]>>)}

InitSign ==
    /\ \E c \in {NoneVal, Some("comment")} :
       \E v \in {NoneVal, Some("did:key:verifier")} :
       \E w \in {NoneVal, Some(TRUE), Some(FALSE)} :
       \E f \in SignFormats : \E a \in SignAttachments :
          msg = V20PresRequest("id1", c, v, w, f, NoneVal, a)
    /\ lastCall = NoCall
    /\ ncalls = 0
    /\ InitValIdle

NextSign == \E sign \in SeqsUpTo(ByteVals, MaxSigLen) : AddSignature(sign)

SpecSign == InitSign /\ [][NextSign]_vars

(***************************************************************************)
(* Properties of validate_fields (under Spec, task t1)                     *)
(***************************************************************************)
F == FormatsOf(data["t1"])

A == AttachmentsOf(data["t1"])

T == trace["t1"]

Done == pc["t1"] = "done"

Min(S) == CHOOSE x \in S : \A y \in S : x <= y

Occurrences(id) == {j \in 1..Len(A) : A[j].ident = id}

HasAttachment(d) == Occurrences(F[d].attach_id) # {}

FirstOccurrence(d) == A[Min(Occurrences(F[d].attach_id))]

Missing == {d \in 1..Len(F) : ~HasAttachment(d)}

Known(d) == F[d].format \in {"known/1.0", "known/2.0"}

Rejects(d) ==
    /\ Known(d)
    /\ HasAttachment(d)
    /\ ~FormatAccepts(FormatGet(F[d].format), PRES_20_REQUEST,
                      FirstOccurrence(d).content)

Rejected == {d \in 1..Len(F) : Rejects(d)}

ValidateAt == {k \in 1..Len(T) : T[k].op = "validate"}

LookupAt == {k \in 1..Len(T) : T[k].op = "lookup"}

(* The descriptors validation reaches: all up to the first that fails.     *)
FirstFailure == Min(Missing \cup Rejected \cup {Len(F) + 1})

MissingAttachmentFor(id) == [kind |-> "No attachment for attach_id", id |-> id]

(* C1: whenever the numbers of descriptors and attachments differ,         *)
(* validation looks up no descriptor and invokes no validator, and ends    *)
(* with the length-mismatch error, also when a descriptor has no           *)
(* attachment.                                                             *)
C1_CardinalityFirst ==
    Len(F) # Len(A) =>
        /\ T = <<>>
        /\ pc["t1"] # "start" => Done /\ outcome["t1"] = LengthError

C1_Witness ==
    /\ Done
    /\ Len(F) > Len(A)
    /\ Missing # {}
    /\ outcome["t1"] = LengthError

(* C2 as stated: with equal numbers, a descriptor without attachment makes *)
(* validation end with the missing-attachment error naming the first such  *)
(* descriptor, nothing after it being processed.                           *)
C2_Original ==
    (Done /\ Len(F) = Len(A) /\ Missing # {}) =>
        /\ outcome["t1"] = MissingAttachmentFor(F[Min(Missing)].attach_id)
        /\ \A k \in 1..Len(T) : T[k].idx <= Min(Missing)

(* C2 amended: the same, provided no descriptor before the first one       *)
(* without attachment has a registered format whose validator rejects the  *)
(* content of its attachment.                                              *)
C2_MissingAttachment ==
    (/\ Done
     /\ Len(F) = Len(A)
     /\ Missing # {}
     /\ \A d \in Rejected : d > Min(Missing)) =>
        /\ outcome["t1"] = MissingAttachmentFor(F[Min(Missing)].attach_id)
        /\ \A k \in 1..Len(T) : T[k].idx <= Min(Missing)
        /\ T[Len(T)] = LookupEvent(Min(Missing), F[Min(Missing)].attach_id)

C2_Witness ==
    /\ Done
    /\ Len(F) = Len(A)
    /\ Len(F) >= 2
    /\ Missing = {1}
    /\ Rejects(2)
    /\ outcome["t1"] = MissingAttachmentFor(F[1].attach_id)

(* C3 as stated: when every descriptor has an attachment, a validator is   *)
(* invoked for exactly the descriptors whose format is registered.         *)
C3_Original ==
    (Done /\ Missing = {}) =>
        {T[k].idx : k \in ValidateAt} = {d \in 1..Len(F) : Known(d)}

(* C3 amended: with equal numbers and every descriptor having an           *)
(* attachment, a validator is invoked, once, with the request stage and    *)
(* the descriptor's attachment content, for exactly the descriptors with a *)
(* registered format up to and including the first whose validator         *)
(* rejects; that rejection ends validation with a format failure carrying  *)
(* that format identifier; without rejection the envelope is accepted, so  *)
(* a descriptor with an unregistered format invokes no validator and       *)
(* causes no failure.                                                      *)
C3_FormatDispatch ==
    (Done /\ Len(F) = Len(A) /\ Missing = {}) =>
        /\ {T[k].idx : k \in ValidateAt} =
              {d \in 1..Len(F) : Known(d) /\ d <= FirstFailure}
        /\ Cardinality(ValidateAt) = Cardinality({T[k].idx : k \in ValidateAt})
        /\ \A k \in ValidateAt :
              T[k] = ValidateEvent(T[k].idx, FormatGet(F[T[k].idx].format),
                                   PRES_20_REQUEST,
                                   FirstOccurrence(T[k].idx).content)
        /\ outcome["t1"] = IF Rejected = {} THEN Accepted
                           ELSE FormatError(F[Min(Rejected)].format)

C3_Witness ==
    /\ Done
    /\ Len(F) = 2
    /\ Len(A) = 2
    /\ Missing = {}
    /\ ~Known(1)
    /\ Rejects(2)
    /\ Len(T) = 3
    /\ outcome["t1"] = FormatError(F[2].format)

(* C7 as stated: an accepted envelope has equal numbers of descriptors and *)
(* attachments and, for every descriptor, exactly one attachment with its  *)
(* attach_id.                                                              *)
C7_Original ==
    outcome["t1"] = Accepted =>
        /\ Len(F) = Len(A)
        /\ \A d \in 1..Len(F) : Cardinality(Occurrences(F[d].attach_id)) = 1

(* C7 amended: an accepted envelope has equal numbers of descriptors and   *)
(* attachments and, for every descriptor, at least one attachment with its *)
(* attach_id.                                                              *)
C7_AcceptedStructure ==
    outcome["t1"] = Accepted =>
        /\ Len(F) = Len(A)
        /\ \A d \in 1..Len(F) : Cardinality(Occurrences(F[d].attach_id)) >= 1

C7_Witness ==
    /\ outcome["t1"] = Accepted
    /\ Len(F) = 2
    /\ F[1].attach_id # F[2].attach_id
    /\ Known(1)

(* C8 as stated: a validator is invoked only after every descriptor of the *)
(* envelope has been resolved to an attachment; an envelope with an        *)
(* earlier descriptor whose validator rejects and a later descriptor       *)
(* without attachment ends with the missing-attachment error, no validator *)
(* having been called.                                                     *)
C8_Original ==
    /\ \A k \in ValidateAt : \A d \in 1..Len(F) :
          /\ HasAttachment(d)
          /\ \E j \in LookupAt : j < k /\ T[j].idx = d
    /\ (/\ Done
        /\ Len(F) = Len(A)
        /\ \E d \in Rejected : \E m \in Missing : d < m) =>
           /\ outcome["t1"] = MissingAttachmentFor(F[Min(Missing)].attach_id)
           /\ ValidateAt = {}

(* C8 amended: after the cardinality check, validation handles the         *)
(* descriptors one by one in declared order, each being resolved and then  *)
(* format-validated before the next is resolved: a validator is invoked    *)
(* for a descriptor only after that descriptor and every earlier one has   *)
(* been resolved to an attachment, and later descriptors are not yet       *)
(* looked up.  An envelope with an earlier descriptor whose validator      *)
(* rejects and a later descriptor without attachment (none before it)      *)
(* ends with the format failure of the earlier one, its validator having   *)
(* been called.                                                            *)
C8_InterleavedOrder ==
    /\ Len(F) # Len(A) => T = <<>>
    /\ \A k \in ValidateAt :
          /\ \A d \in 1..T[k].idx :
                /\ HasAttachment(d)
                /\ \E j \in LookupAt : j < k /\ T[j].idx = d
          /\ \A j \in LookupAt : j < k => T[j].idx <= T[k].idx
    /\ (/\ Done
        /\ Len(F) = Len(A)
        /\ Rejected # {}
        /\ Missing # {}
        /\ Min(Rejected) < Min(Missing)) =>
           /\ outcome["t1"] = FormatError(F[Min(Rejected)].format)
           /\ \E k \in ValidateAt : T[k].idx = Min(Rejected)
           /\ \A j \in LookupAt : T[j].idx < Min(Missing)

C8_Witness ==
    /\ Done
    /\ Len(F) = 2
    /\ Len(A) = 2
    /\ Rejects(1)
    /\ 2 \in Missing
    /\ outcome["t1"] = FormatError(F[1].format)
    /\ Len(T) = 2

DupIds == {id \in AttachIds : Cardinality(Occurrences(id)) >= 2}

(* C9: when several attachments share an identifier, a descriptor          *)
(* referring to it is bound to the first of them: the content handed to    *)
(* the validator is that of the first occurrence, and validation fails     *)
(* only for a length mismatch, a descriptor with no attachment at all, or  *)
(* a validator rejecting a first occurrence, never because of the          *)
(* duplicate.                                                              *)
C9_FirstOccurrenceWins ==
    DupIds # {} =>
        /\ \A k \in ValidateAt :
              T[k].content = FirstOccurrence(T[k].idx).content
        /\ (Done /\ Len(F) = Len(A) /\ Missing = {} /\ Rejected = {}) =>
              outcome["t1"] = Accepted
        /\ (Done /\ outcome["t1"] # Accepted) =>
              \/ outcome["t1"] = LengthError /\ Len(F) # Len(A)
              \/ \E d \in Missing :
                    outcome["t1"] = MissingAttachmentFor(F[d].attach_id)
              \/ \E d \in Rejected : outcome["t1"] = FormatError(F[d].format)

C9_Witness ==
    /\ Done
    /\ outcome["t1"] = Accepted
    /\ Len(F) = 2
    /\ Known(1)
    /\ F[1].attach_id \in DupIds
    /\ \E j \in Occurrences(F[1].attach_id) :
          ~FormatAccepts(FormatGet(F[1].format), PRES_20_REQUEST, A[j].content)
    /\ \E k \in ValidateAt : T[k].idx = 1

(***************************************************************************)
(* Properties of V20PresRequest.attachment (under SpecResolve)             *)
(***************************************************************************)
KnownLabels == {"known/1.0", "known/2.0"}

LabelOf(pres_format) == IF pres_format = "KNOWN_1" THEN "known/1.0" ELSE "known/2.0"

MsgOccurrences(id) ==
    {j \in 1..Len(msg.request_presentations_attach) :
        msg.request_presentations_attach[j].ident = id}

(* The content of the attachment bound to descriptor d of msg, when it has one *)
BoundContent(d) ==
    msg.request_presentations_attach[Min(MsgOccurrences(msg.formats[d].attach_id))].content

IsBound(d) == MsgOccurrences(msg.formats[d].attach_id) # {}

KnownDescriptors == {d \in 1..Len(msg.formats) : msg.formats[d].format \in KnownLabels}

DescriptorsOf(pres_format) ==
    {d \in 1..Len(msg.formats) : msg.formats[d].format = LabelOf(pres_format)}

(* C4: attachment() without a format returns the content of the attachment *)
(* bound to the first descriptor, in declared order, whose format is       *)
(* registered, and None when no declared format is registered.             *)
C4_DefaultResolution ==
    (lastCall.op = "attachment" /\ lastCall.fmt = None) =>
        IF KnownDescriptors = {} THEN lastCall.result = NoneVal
        ELSE IsBound(Min(KnownDescriptors)) =>
                lastCall.result = Some(BoundContent(Min(KnownDescriptors)))

C4_Witness ==
    /\ lastCall.op = "attachment"
    /\ lastCall.fmt = None
    /\ Len(msg.formats) = 2
    /\ KnownDescriptors = {2}
    /\ IsBound(1)
    /\ IsBound(2)
    /\ BoundContent(1) # BoundContent(2)
    /\ lastCall.result = Some(BoundContent(2))

(* C5: attachment(fmt) returns the content of the attachment bound to the  *)
(* first descriptor whose format is fmt, whatever formats earlier          *)
(* descriptors carry, and None when no descriptor declares fmt.            *)
C5_TargetResolution ==
    (lastCall.op = "attachment" /\ lastCall.fmt # None) =>
        IF DescriptorsOf(lastCall.fmt) = {} THEN lastCall.result = NoneVal
        ELSE IsBound(Min(DescriptorsOf(lastCall.fmt))) =>
                lastCall.result = Some(BoundContent(Min(DescriptorsOf(lastCall.fmt))))

C5_Witness ==
    /\ lastCall.op = "attachment"
    /\ lastCall.fmt = "KNOWN_2"
    /\ Len(msg.formats) = 2
    /\ msg.formats[1].format = "known/1.0"
    /\ msg.formats[2].format = "known/2.0"
    /\ IsBound(1)
    /\ IsBound(2)
    /\ BoundContent(1) # BoundContent(2)
    /\ lastCall.result = Some(BoundContent(2))

(***************************************************************************)
(* Properties of V20PresRequest.add_signature (under SpecSign)             *)
(***************************************************************************)
Sextet(ch) == CHOOSE s \in 0..63 : Base64Chars[s + 1] = ch

(* base64.b64decode of a text; <<-1>> stands for its binascii.Error *)
RECURSIVE b64decode(_)
b64decode(text) ==
    IF Len(text) = 0 THEN <<>>
    ELSE IF Len(text) < 4 \/ text[1] = "=" \/ text[2] = "=" THEN <<-1>>
    ELSE LET s1 == Sextet(text[1])
             s2 == Sextet(text[2])
         IN IF text[3] = "="
            THEN IF text[4] = "=" /\ Len(text) = 4
                 THEN <<s1 * 4 + s2 \div 16>>
                 ELSE <<-1>>
            ELSE IF text[4] = "="
            THEN IF Len(text) = 4
                 THEN <<s1 * 4 + s2 \div 16,
                        (s2 % 16) * 16 + Sextet(text[3]) \div 4>>
                 ELSE <<-1>>
            ELSE <<s1 * 4 + s2 \div 16,
                   (s2 % 16) * 16 + Sextet(text[3]) \div 4,
                   (Sextet(text[3]) % 4) * 64 + Sextet(text[4])>>
                 \o b64decode(SubSeq(text, 5, Len(text)))

OtherFields ==
    {"_id", "comment", "will_confirm", "verifier_did", "formats",
     "request_presentations_attach"}

(* C6: every call add_signature(b), a repeated one included, leaves on     *)
(* signature a text whose base64 decoding is exactly b, and changes no     *)
(* other field of the message.                                             *)
C6_SignatureRoundTrip ==
    [][ncalls' # ncalls =>
          /\ msg'.signature # NoneVal
          /\ b64decode(msg'.signature[1]) = lastCall'.sign
          /\ \A f \in OtherFields : msg'[f] = msg[f]]_vars

C6_Witness ==
    /\ ncalls = 2
    /\ lastCall.op = "add_signature"
    /\ lastCall.sign = <<251>>
    /\ msg.signature = Some(<<"+", "w", "=", "=">>)
    /\ msg.comment = Some("comment")
    /\ Len(msg.formats) = 1

(***************************************************************************)
(* Properties of repeated and interleaved validation (under SpecIdem)      *)
(***************************************************************************)
(* C10: a validation of the same data gives the same outcome, offending    *)
(* identifier included, as the validation before it and as a validation of *)
(* equal data by the other task, however the two tasks interleave; and no  *)
(* step of validation changes the data validated.                          *)
C10_Idempotent ==
    /\ [](\A t \in Tasks :
            /\ (pc[t] = "done" /\ prev[t] # Pending) => outcome[t] = prev[t]
            /\ \A u \in Tasks :
                  (pc[t] = "done" /\ pc[u] = "done" /\ data[t] = data[u]) =>
                     outcome[t] = outcome[u])
    /\ [][data' = data]_vars

C10_Witness ==
    /\ pc["t1"] = "done"
    /\ pc["t2"] = "dispatch"
    /\ prev["t1"] = [kind |-> "format validation failure", id |-> "known/1.0"]
    /\ outcome["t1"] = prev["t1"]
    /\ prev["t2"] # Pending
    /\ Len(trace["t1"]) = 4

====
